---- MODULE Spec2Model ----
(***************************************************************************)
(* Model of the ALiBaVa strip-detector analysis:                           *)
(*   - event_analysis.clustering      (src/analysis_functions.py)          *)
(*   - NoiseAnalysis.detect_noisy_strips                                   *)
(*                          (src/analysis_classes/noise_analysis.py)       *)
(*                                                                         *)
(* numpy arrays are functions over 0..n-1 (Python indexing); Python lists  *)
(* and the index arrays returned by np.nonzero are sequences of channel    *)
(* numbers.  Signals and S/N values are small integers.  The float         *)
(* SN_ratio is the fraction SN_ratio_num / SN_ratio_den, and a comparison  *)
(* with SN_cut * SN_ratio is cross-multiplied by SN_ratio_den.             *)
(***************************************************************************)
EXTENDS Integers, Sequences, FiniteSets, TLC

----------------------------------------------------------------------------
(* Bounds of the model *)

\* number of channels of the detector in the clustering model
NumChan == 6
\* at most this many channels of an event carry a non-zero S/N
MaxActive == 3
\* number of channels of the noise vector in the noisy-strip model
NoiseChan == 4
\* longest manual mask
MaxMaskLen == 2

Chan == 0 .. (NumChan - 1)
\* signal values of a channel (event[c]); negative is physical for n-in-p
SigVals == {-1, 0, 1}
\* magnitudes of S/N: 0 below, 1 equal to, 2 above the neighbour threshold
\* SN_cut * SN_ratio, 3 above the seed threshold SN_cut
SNMags == {0, 1, 2, 3}
SN_cutVals == {2}
SN_clusterVals == {0, 1}
max_clustersizeVals == {1, 2, 5}
NoiseVals == {0, 1, 3}
Noise_cutVals == {0, 1}

\* kwargs.get("SN_ratio", 0.5)
SN_ratio_num == 1
SN_ratio_den == 2

----------------------------------------------------------------------------
VARIABLES
    pc,              \* "input": arguments chosen; "done": the call returned
    event,           \* clustering argument `event` (the corrected signal)
    SN,              \* clustering argument `SN`
    SN_cut,          \* self.SN_cut
    SN_cluster,      \* self.SN_cluster
    max_clustersize, \* self.max_clustersize
    masking,         \* self.masking
    material,        \* self.material (1: n-in-p, 0: otherwise)
    automasked_hit,  \* self.automasked_hit
    channels,        \* returned seed list
    clusters_list,   \* returned clusters
    numclus,         \* returned number of clusters
    clustersize,     \* returned sizes
    candidates,      \* every `cluster` built by the loop, accepted or not
    Noise,           \* detect_noisy_strips argument `Noise`
    Noise_cut,       \* detect_noisy_strips argument `Noise_cut`
    mask,            \* self.mask (Manual_mask)
    noisy_strips,    \* returned high_noise_strips
    good_strips,     \* returned good_strips
    signal,          \* NoiseAnalysis: data['/events/signal'], one row per event
    time,            \* NoiseAnalysis: data['/events/time']
    pedestal,        \* NoiseAnalysis: self.pedestal
    score_raw,       \* NoiseAnalysis: self.score_raw
    CMnoise,         \* NoiseAnalysis: self.CMnoise
    noise,           \* NoiseAnalysis: self.noise
    err,             \* the exception that ended the constructor, or "none"
    events,          \* do_analysis argument `events`, one raw row per event
    timing,          \* do_analysis argument `timing`
    meanCMN,         \* do_analysis: np.mean(self.CMN)
    meanCMsig,       \* do_analysis: np.mean(self.CMsig)
    prodata,         \* do_analysis: the list of per-event results
    hitmap,          \* do_analysis: the one array object `hitmap`
    self_events,     \* event_analysis: self.events
    data,            \* event_analysis: self.data, one entry per input file
    self_numevents,  \* event_analysis: self.numevents
    total_events,    \* event_analysis: self.total_events
    outputdata,      \* event_analysis: self.outputdata, one entry per file
    iter,            \* fit_langau: iter
    oldmpv,          \* fit_langau: oldmpv
    coeff,           \* fit_langau: coeff of the last fit (its MPV), <<>> before
    warned           \* fit_langau: the non-convergence warning was issued

clusVars == <<event, SN, SN_cut, SN_cluster, max_clustersize, masking,
              material, automasked_hit, channels, clusters_list, numclus,
              clustersize, candidates>>
noiseVars == <<Noise, Noise_cut, mask, noisy_strips, good_strips>>
pedVars == <<signal, time, pedestal, score_raw, CMnoise, noise, err>>
evtVars == <<events, timing, meanCMN, meanCMsig, prodata, hitmap, self_events>>
fileVars == <<data, self_numevents, total_events, outputdata>>
fitVars == <<iter, oldmpv, coeff, warned>>
vars == <<pc, clusVars, noiseVars, pedVars, evtVars, fileVars, fitVars>>

----------------------------------------------------------------------------
(* numpy helpers *)

abs(x) == IF x < 0 THEN -x ELSE x

Min(S) == CHOOSE x \in S : \A y \in S : x <= y

\* the elements of a set of integers as an ascending sequence (np.nonzero)
RECURSIVE Ascending(_)
Ascending(S) ==
    IF S = {} THEN <<>> ELSE <<Min(S)>> \o Ascending(S \ {Min(S)})

Range(s) == {s[k] : k \in 1 .. Len(s)}

\* np.delete(arr, idx): arr without the positions named in idx (0-based);
\* a position named twice is removed once
RECURSIVE npDelete(_, _, _)
npDelete(arr, idx, k) ==
    IF k > Len(arr) THEN <<>>
    ELSE (IF (k - 1) \in idx THEN <<>> ELSE <<arr[k]>>)
         \o npDelete(arr, idx, k + 1)

\* np.sum(np.take(ev, cluster))
RECURSIVE SumTake(_, _)
SumTake(ev, cl) ==
    IF cl = <<>> THEN 0 ELSE ev[Head(cl)] + SumTake(ev, Tail(cl))

----------------------------------------------------------------------------
(* event_analysis.clustering *)

\* variant: the seed cut is not strict
SeedChannels_ge(sn, cut) == Ascending({c \in DOMAIN sn : abs(sn[c]) >= cut})

\* np.nonzero(np.abs(SN) > self.SN_cut)[0]
SeedChannels(sn, cut) == Ascending({c \in DOMAIN sn : abs(sn[c]) > cut})

\* variant: the polarity is ignored, positive signals are always masked
NonPhysical_onePolarity(ev, c, mat) == ev[c] > 0

\* the sign test of the automasking: material 1 masks positive signals,
\* material 0 masks negative signals
NonPhysical(ev, c, mat) == IF mat = 1 THEN ev[c] > 0 ELSE ev[c] < 0

\* masked_ind: positions (0-based) in `channels` of the seeds to be masked
masked_ind(ev, chs, msk, mat) ==
    IF msk
    THEN {k - 1 : k \in {j \in 1 .. Len(chs) : NonPhysical(ev, chs[j], mat)}}
    ELSE {}

\* valid_ind: np.arange(len(event)), or the channels of strictly physical sign
valid_ind(ev, msk, mat) ==
    IF ~msk THEN DOMAIN ev
    ELSE IF mat = 1 THEN {c \in DOMAIN ev : ev[c] < 0}
    ELSE {c \in DOMAIN ev : ev[c] > 0}

\* offset = int(self.max_clustersize * 0.5)
Offset(mcs) == mcs \div 2

\* if 0 < ch-i and ch+i < self.numchan
InBounds(ch, i, n) == 0 < ch - i /\ ch + i < n

\* np.abs(SN[c]) > self.SN_cut * self.SN_ratio
AboveRatio(sn, c, cut) == abs(sn[c]) * SN_ratio_den > cut * SN_ratio_num
\* np.abs(SN[c]) < self.SN_cut * self.SN_ratio
BelowRatio(sn, c, cut) == abs(sn[c]) * SN_ratio_den < cut * SN_ratio_num

\* variant: the right stop flag is not consulted
GrowRight_nostop(st, p, c) ==
    IF AboveRatio(p.SN, c, p.SN_cut) /\ st.used[c] = 0 /\ c \in p.valid
    THEN [st EXCEPT !.cluster = Append(@, c), !.used[c] = 1, !.size = @ + 1]
    ELSE IF BelowRatio(p.SN, c, p.SN_cut)
         THEN [st EXCEPT !.right_stop = TRUE]
         ELSE st

\* the right-hand if/elif of the neighbour loop
GrowRight(st, p, c) ==
    IF AboveRatio(p.SN, c, p.SN_cut) /\ st.used[c] = 0 /\ c \in p.valid
       /\ ~st.right_stop
    THEN [st EXCEPT !.cluster = Append(@, c), !.used[c] = 1, !.size = @ + 1]
    ELSE IF BelowRatio(p.SN, c, p.SN_cut)
         THEN [st EXCEPT !.right_stop = TRUE]
         ELSE st

\* variant: the left neighbour is taken without looking at used_channels
GrowLeft_reuse(st, p, c) ==
    IF AboveRatio(p.SN, c, p.SN_cut) /\ c \in p.valid /\ ~st.left_stop
    THEN [st EXCEPT !.cluster = Append(@, c), !.used[c] = 1, !.size = @ + 1]
    ELSE IF BelowRatio(p.SN, c, p.SN_cut)
         THEN [st EXCEPT !.left_stop = TRUE]
         ELSE st

\* the left-hand if/elif of the neighbour loop
GrowLeft(st, p, c) ==
    IF AboveRatio(p.SN, c, p.SN_cut) /\ st.used[c] = 0 /\ c \in p.valid
       /\ ~st.left_stop
    THEN [st EXCEPT !.cluster = Append(@, c), !.used[c] = 1, !.size = @ + 1]
    ELSE IF BelowRatio(p.SN, c, p.SN_cut)
         THEN [st EXCEPT !.left_stop = TRUE]
         ELSE st

\* for i in range(1, offset+1): ...
RECURSIVE GrowCluster(_, _, _, _)
GrowCluster(st, p, ch, i) ==
    IF i > Offset(p.max_clustersize) THEN st
    ELSE IF InBounds(ch, i, p.numchan)
         THEN GrowCluster(GrowLeft(GrowRight(st, p, ch + i), p, ch - i),
                          p, ch, i + 1)
         ELSE GrowCluster(st, p, ch, i + 1)

\* variant: a cluster at the cut is accepted
SNclusterAccepts_ge(ev, cl, cut) ==
    cut < 0 \/ abs(SumTake(ev, cl)) >= cut * cut

\* variant: the sign of the summed signal is kept
SNclusterAccepts_signed(ev, cl, cut) ==
    cut < 0 \/ SumTake(ev, cl) > cut * cut

\* SNcluster = np.sqrt(np.abs(np.sum(np.take(event, cluster))));
\* SNcluster > self.SN_cluster.  For integers, sqrt(|s|) > c holds exactly
\* when c < 0 or |s| > c*c.
SNclusterAccepts(ev, cl, cut) ==
    cut < 0 \/ abs(SumTake(ev, cl)) > cut * cut

\* for ch in channels: ...   (acc carries used_channels, numclus,
\* clusters_list, clustersize; acc.candidates records every cluster built)
RECURSIVE ClusterLoop(_, _, _, _)
ClusterLoop(acc, p, chs, k) ==
    IF k > Len(chs) THEN acc
    ELSE LET ch == chs[k] IN
         IF acc.used[ch] # 0 THEN ClusterLoop(acc, p, chs, k + 1)
         ELSE LET st0 == [cluster |-> <<ch>>,
                          used |-> [acc.used EXCEPT ![ch] = 1],
                          size |-> 1,
                          right_stop |-> FALSE,
                          left_stop |-> FALSE]
                  st == GrowCluster(st0, p, ch, 1)
                  ok == SNclusterAccepts(p.event, st.cluster, p.SN_cluster)
              IN ClusterLoop(
                   [used |-> st.used,
                    numclus |-> IF ok THEN acc.numclus + 1 ELSE acc.numclus,
                    clusters_list |-> IF ok THEN Append(acc.clusters_list, st.cluster)
                                      ELSE acc.clusters_list,
                    clustersize |-> IF ok THEN Append(acc.clustersize, st.size)
                                    ELSE acc.clustersize,
                    candidates |-> Append(acc.candidates,
                                          [cluster |-> st.cluster, size |-> st.size])],
                   p, chs, k + 1)

\* the whole of clustering(event, SN) as a function of its inputs
Clustered(ev, sn, cut, clcut, mcs, msk, mat) ==
    LET chs0 == SeedChannels(sn, cut)
        midx == masked_ind(ev, chs0, msk, mat)
        chs == npDelete(chs0, midx, 1)
        p == [event |-> ev, SN |-> sn, SN_cut |-> cut, SN_cluster |-> clcut,
              max_clustersize |-> mcs, numchan |-> NumChan,
              valid |-> valid_ind(ev, msk, mat)]
        acc0 == [used |-> [c \in Chan |-> 0], numclus |-> 0,
                 clusters_list |-> <<>>, clustersize |-> <<>>,
                 candidates |-> <<>>]
        acc == ClusterLoop(acc0, p, chs, 1)
    IN [channels |-> chs, automasked |-> Cardinality(midx),
        clusters_list |-> acc.clusters_list, numclus |-> acc.numclus,
        clustersize |-> acc.clustersize, candidates |-> acc.candidates]

----------------------------------------------------------------------------
(* Specification of one call of clustering *)

\* what a channel that is not quiet (signal 0, S/N 0) can carry: an S/N above
\* the neighbour threshold with any signal, or an S/N equal to the neighbour
\* threshold (such a channel joins no cluster, its signal is never read)
ActiveKinds ==
    {k \in [sig : SigVals, mag : SNMags] : k.mag > 1 \/ (k.mag = 1 /\ k.sig = 0)}

\* masking with either polarity, or masking off
MaskSettings == {<<FALSE, 1>>, <<TRUE, 1>>, <<TRUE, 0>>}

FitIdle == iter = 0 /\ oldmpv = 0 /\ coeff = <<>> /\ warned = FALSE

FilesIdle ==
    /\ data = <<>> /\ self_numevents = 0 /\ total_events = 0 /\ outputdata = <<>>

EvtIdle ==
    /\ events = <<>> /\ timing = <<>> /\ meanCMN = 0 /\ meanCMsig = 0
    /\ prodata = <<>> /\ hitmap = <<>> /\ self_events = 0

PedIdle ==
    /\ signal = <<>> /\ time = <<>> /\ pedestal = <<>> /\ score_raw = <<>>
    /\ CMnoise = <<>> /\ noise = <<>> /\ err = "none"

NoiseIdle ==
    /\ Noise = <<>> /\ Noise_cut = 0 /\ mask = <<>>
    /\ noisy_strips = <<>> /\ good_strips = <<>>

Init ==
    /\ pc = "input"
    /\ \E A \in {B \in SUBSET Chan : Cardinality(B) <= MaxActive} :
         \E f \in [A -> ActiveKinds] :
           /\ event = [c \in Chan |-> IF c \in A THEN f[c].sig ELSE 0]
           /\ SN = [c \in Chan |-> IF c \in A
                                   THEN (IF f[c].sig < 0 THEN -f[c].mag ELSE f[c].mag)
                                   ELSE 0]
    /\ SN_cut \in SN_cutVals
    /\ SN_cluster \in SN_clusterVals
    /\ max_clustersize \in max_clustersizeVals
    /\ \E ms \in MaskSettings : masking = ms[1] /\ material = ms[2]
    /\ automasked_hit = 0
    /\ channels = <<>> /\ clusters_list = <<>> /\ numclus = 0
    /\ clustersize = <<>> /\ candidates = <<>>
    /\ NoiseIdle
    /\ PedIdle
    /\ EvtIdle
    /\ FilesIdle
    /\ FitIdle

clustering ==
    /\ pc = "input"
    /\ \E r \in {Clustered(event, SN, SN_cut, SN_cluster, max_clustersize,
                           masking, material)} :
         /\ channels' = r.channels
         /\ automasked_hit' = automasked_hit + r.automasked
         /\ clusters_list' = r.clusters_list
         /\ numclus' = r.numclus
         /\ clustersize' = r.clustersize
         /\ candidates' = r.candidates
    /\ pc' = "done"
    /\ UNCHANGED <<event, SN, SN_cut, SN_cluster, max_clustersize, masking,
                   material, noiseVars, pedVars, evtVars, fileVars,
                   fitVars>>

Next == clustering

Spec == Init /\ [][Next]_vars

----------------------------------------------------------------------------
(* NoiseAnalysis.detect_noisy_strips *)

NChan == 0 .. (NoiseChan - 1)

\* twice np.median(Noise): the middle value counted twice, or the sum of the
\* two middle values
Median2(nz) ==
    LET n == Cardinality(DOMAIN nz)
        srt == SortSeq([k \in 1 .. n |-> nz[k - 1]], LAMBDA a, b : a < b)
    IN IF n % 2 = 1 THEN 2 * srt[(n + 1) \div 2]
       ELSE srt[n \div 2] + srt[n \div 2 + 1]

\* variant: a channel exactly at median + cut counts as noisy
HighNoise_ge(nz, cut) ==
    Ascending({i \in DOMAIN nz : 2 * nz[i] >= Median2(nz) + 2 * cut})

\* np.nonzero(Noise > self.median_noise + Noise_cut)[0]
HighNoise(nz, cut) ==
    Ascending({i \in DOMAIN nz : 2 * nz[i] > Median2(nz) + 2 * cut})

\* the two returned arrays
DetectNoisyStrips(nz, cut, msk) ==
    LET high_noise_strips == HighNoise(nz, cut) \o msk
        arange == [k \in 1 .. Cardinality(DOMAIN nz) |-> k - 1]
    IN [noisy |-> high_noise_strips,
        good |-> npDelete(arange, Range(high_noise_strips), 1)]

RECURSIVE SeqsUpTo(_, _)
SeqsUpTo(S, n) ==
    IF n = 0 THEN {<<>>}
    ELSE SeqsUpTo(S, n - 1) \cup [1 .. n -> S]

ClusIdle ==
    /\ event = <<>> /\ SN = <<>> /\ SN_cut = 0 /\ SN_cluster = 0
    /\ max_clustersize = 0 /\ masking = FALSE /\ material = 0
    /\ automasked_hit = 0 /\ channels = <<>> /\ clusters_list = <<>>
    /\ numclus = 0 /\ clustersize = <<>> /\ candidates = <<>>

InitNoise ==
    /\ pc = "input"
    /\ Noise \in [NChan -> NoiseVals]
    /\ Noise_cut \in Noise_cutVals
    /\ mask \in SeqsUpTo(NChan, MaxMaskLen)
    /\ noisy_strips = <<>> /\ good_strips = <<>>
    /\ ClusIdle
    /\ PedIdle
    /\ EvtIdle
    /\ FilesIdle
    /\ FitIdle

detect_noisy_strips ==
    /\ pc = "input"
    /\ \E r \in {DetectNoisyStrips(Noise, Noise_cut, mask)} :
         /\ noisy_strips' = r.noisy
         /\ good_strips' = r.good
    /\ pc' = "done"
    /\ UNCHANGED <<Noise, Noise_cut, mask, clusVars, pedVars, evtVars,
                   fileVars, fitVars>>

NextNoise == detect_noisy_strips

SpecNoise == InitNoise /\ [][NextNoise]_vars

----------------------------------------------------------------------------
(* NoiseAnalysis.__init__: pedestal, two passes of noise_calc around        *)
(* detect_noisy_strips                                                     *)
(*                                                                         *)
(* A float is a fraction [num, den] of integers; 0/0 is NaN.  A vector of  *)
(* floats with one common denominator is [num |-> vector, den |-> d].      *)
(* With at most two events np.std of a column is rational (half the        *)
(* distance of the two values), so the square root below is exact.         *)

\* numbers of events of a pedestal run
NumEventsVals == {0, 1, 2}
\* raw ADC values
RawVals == {0, 1}
\* timestamps: negative is bad timing
TimeVals == {-1, 0}

RECURSIVE SeqSum(_)
SeqSum(s) == IF s = <<>> THEN 0 ELSE Head(s) + SeqSum(Tail(s))

\* the sum of a vector indexed 0 .. n-1
VecSum(f) == SeqSum([k \in 1 .. Cardinality(DOMAIN f) |-> f[k - 1]])

\* the exact square root of a perfect square
RECURSIVE RootFrom(_, _)
RootFrom(v, r) == IF r * r >= v THEN r ELSE RootFrom(v, r + 1)
ExactSqrt(v) == CHOOSE r \in {RootFrom(v, 0)} : r * r = v

\* np.mean(data['/events/signal'][0:], axis=0)
MeanAxis0(rows, n) ==
    [num |-> [c \in 0 .. (n - 1) |-> SeqSum([e \in 1 .. Len(rows) |-> rows[e][c]])],
     den |-> Len(rows)]

\* np.nonzero(data['/events/time'][:] >= 0)
GoodEvents(tm) == Ascending({e \in 1 .. Len(tm) : tm[e] >= 0})

\* events[:, good_strips] and pedestal[good_strips]
TakeColumns(row, cols) == [k \in 0 .. (Len(cols) - 1) |-> row[cols[k + 1]]]

\* for event in range(self.goodevents[0].shape[0]): the loop visits the
\* first len(goodevents) events
NoiseCalcVisits(e, tm) == e <= Len(GoodEvents(tm))

\* one pass of the loop body for the row ev: cm = ev - pedestal,
\* CMN = np.mean(cm), cn = cm - CMN; all over the denominator ped.den * n
NoiseCalcRow(ev, ped, n) ==
    LET cm == [c \in 0 .. (n - 1) |-> ped.den * ev[c] - ped.num[c]]
        tot == VecSum(cm)
    IN [cn |-> [num |-> [c \in 0 .. (n - 1) |-> n * cm[c] - tot],
                den |-> ped.den * n],
        CMN |-> [num |-> tot, den |-> ped.den * n]]

\* noise_calc(events, pedestal, numevents, numchannels): score and CMnoise
\* start as zeros and are filled for the visited events only
noise_calc(rows, ped, numevents, n, tm) ==
    [score |-> [e \in 1 .. numevents |->
                   IF NoiseCalcVisits(e, tm) THEN NoiseCalcRow(rows[e], ped, n).cn
                   ELSE [num |-> [c \in 0 .. (n - 1) |-> 0], den |-> 1]],
     CMnoise |-> [e \in 1 .. numevents |->
                   IF NoiseCalcVisits(e, tm) THEN NoiseCalcRow(rows[e], ped, n).CMN
                   ELSE [num |-> 0, den |-> 1]]]

\* np.std(score, axis=0) of rows over the common denominator d (a row of
\* zeros has the numerators 0 over any denominator)
StdAxis0(score, n, d) ==
    LET E == Len(score)
        col(c) == [e \in 1 .. E |-> score[e].num[c]]
        sq(c) == [e \in 1 .. E |-> score[e].num[c] * score[e].num[c]]
    IN [num |-> [c \in 0 .. (n - 1) |->
                    ExactSqrt(E * SeqSum(sq(c)) - SeqSum(col(c)) * SeqSum(col(c)))],
        den |-> E * d]

\* detect_noisy_strips on a noise vector num/den: Noise > median + cut is
\* num > median(num) + cut * den; every comparison with NaN is false
DetectOnFractions(nz, cut, msk) ==
    IF nz.den = 0
    THEN [noisy |-> msk,
          good |-> npDelete([k \in 1 .. Cardinality(DOMAIN nz.num) |-> k - 1],
                            Range(msk), 1)]
    ELSE DetectNoisyStrips(nz.num, cut * nz.den, msk)

InitPed ==
    /\ pc = "ped_input"
    /\ \E E \in NumEventsVals :
         /\ signal \in [1 .. E -> [NChan -> RawVals]]
         /\ time \in [1 .. E -> TimeVals]
    /\ Noise_cut \in Noise_cutVals
    /\ mask \in SeqsUpTo(NChan, MaxMaskLen)
    /\ pedestal = <<>> /\ score_raw = <<>> /\ CMnoise = <<>> /\ noise = <<>>
    /\ err = "none"
    /\ Noise = <<>> /\ noisy_strips = <<>> /\ good_strips = <<>>
    /\ ClusIdle
    /\ EvtIdle
    /\ FilesIdle
    /\ FitIdle

\* lines 76-86: the pedestal, the first noise_calc and the noise
ped_pass1 ==
    /\ pc = "ped_input"
    /\ \E ped \in {MeanAxis0(signal, NoiseChan)} :
       \E r \in {noise_calc(signal, ped, Len(signal), NoiseChan, time)} :
         /\ pedestal' = ped
         /\ score_raw' = r.score
         /\ CMnoise' = r.CMnoise
         /\ noise' = StdAxis0(r.score, NoiseChan, ped.den * NoiseChan)
    /\ pc' = "pass1"
    /\ UNCHANGED <<signal, time, err, noiseVars, clusVars, evtVars, fileVars,
                   fitVars>>

\* lines 87-88
ped_detect ==
    /\ pc = "pass1"
    /\ \E r \in {DetectOnFractions(noise, Noise_cut, mask)} :
         /\ noisy_strips' = r.noisy
         /\ good_strips' = r.good
    /\ pc' = "detected"
    /\ UNCHANGED <<Noise, Noise_cut, mask, pedVars, clusVars, evtVars,
                   fileVars, fitVars>>

\* lines 90-93: noise_calc on the good strips; self.noise is not assigned
ped_pass2 ==
    /\ pc = "detected"
    /\ \E r \in {noise_calc([e \in 1 .. Len(signal) |->
                               TakeColumns(signal[e], good_strips)],
                            [num |-> TakeColumns(pedestal.num, good_strips),
                             den |-> pedestal.den],
                            Len(signal), Len(good_strips), time)} :
         /\ score_raw' = r.score
         /\ CMnoise' = r.CMnoise
    /\ pc' = "pass2"
    /\ UNCHANGED <<signal, time, pedestal, noise, err, noiseVars, clusVars,
                   evtVars, fileVars, fitVars>>

\* line 114: np.concatenate(self.score, axis=0) of the len(goodevents) rows
\* of self.score raises ValueError when there is no row
ped_total_noise ==
    /\ pc = "pass2"
    /\ err' = IF Len(GoodEvents(time)) = 0 THEN "ValueError" ELSE "none"
    /\ pc' = "ped_done"
    /\ UNCHANGED <<signal, time, pedestal, score_raw, CMnoise, noise,
                   noiseVars, clusVars, evtVars, fileVars, fitVars>>

NextPed == ped_pass1 \/ ped_detect \/ ped_pass2 \/ ped_total_noise

SpecPed == InitPed /\ [][NextPed]_vars

----------------------------------------------------------------------------
(* event_analysis.do_analysis and process_event                            *)
(*                                                                         *)
(* Floats are fractions [num, den] as above: a fraction with den = 0 is    *)
(* +inf, -inf or NaN by the sign of num (x / 0 in numpy).                  *)

\* self.tmin
tmin == 0

\* batches of up to two events
BatchSizes == {0, 1, 2}
TimingVals == {0, 1}
MeanCMNVals == {0, 1}
MeanCMsigVals == {0}
EvtSN_cutVals == {1}
EvtSN_clusterVals == {1, 2}
EvtMax_clustersizeVals == {5}

\* raw rows over a pedestal level of 1: at most one channel below the
\* pedestal (channel lo, -1 for none) and at most one hit (channel hi)
RawRow(lo, hi) ==
    [c \in Chan |-> IF c = hi THEN 4 ELSE IF c = lo THEN 0 ELSE 1]
EventRows ==
    {RawRow(lo, hi) : lo \in {-1, 0}, hi \in {-1} \cup Chan}

\* noise per channel: flat, or one dead channel with zero noise
NoiseProfiles ==
    {[c \in Chan |-> 1], [c \in Chan |-> 2],
     [c \in Chan |-> IF c = 0 THEN 0 ELSE 1],
     [c \in Chan |-> IF c = 3 THEN 0 ELSE 1]}

\* variant: the threshold of the trim moves with the hits counted so far
TrimmedChannels_drift(sig, mCMN, mCMsig) ==
    Ascending({c \in DOMAIN sig :
                 sig[c] < 5 * mCMsig + mCMN + (IF prodata = <<>> THEN 0 ELSE 1)})

\* np.nonzero(signal < (5*meanCMsig + meanCMN))
TrimmedChannels(sig, mCMN, mCMsig) ==
    Ascending({c \in DOMAIN sig : sig[c] < 5 * mCMsig + mCMN})

\* prosignal.any(): some element of prosignal is not zero
ProsignalAny(sig, idx) == \E k \in 1 .. Len(idx) : sig[idx[k]] # 0

\* variant: the default S/N is one on every channel
FailSoft_ones(n) ==
    [signal |-> [num |-> [c \in 0 .. (n - 1) |-> 0], den |-> 1],
     SN |-> [c \in 0 .. (n - 1) |-> [num |-> 1, den |-> 1]],
     CMN |-> [num |-> 0, den |-> 1],
     CMsig2 |-> [num |-> 0, den |-> 1]]

\* return np.zeros(numchan), np.zeros(numchan), 0, 0
FailSoft(n) ==
    [signal |-> [num |-> [c \in 0 .. (n - 1) |-> 0], den |-> 1],
     SN |-> [c \in 0 .. (n - 1) |-> [num |-> 0, den |-> 1]],
     CMN |-> [num |-> 0, den |-> 1],
     CMsig2 |-> [num |-> 0, den |-> 1]]

\* process_event(event, pedestal, meanCMN, meanCMsig, noise, numchan);
\* CMsig2 is the square of sigpro = np.std(prosignal)
process_event(ev, ped, mCMN, mCMsig, nz, n) ==
    LET sig == [c \in DOMAIN ev |-> ev[c] - ped[c]]
        idx == TrimmedChannels(sig, mCMN, mCMsig)
        T == Len(idx)
        tot == SumTake(sig, idx)
        sq == SumTake([c \in DOMAIN sig |-> sig[c] * sig[c]], idx)
    IN IF ProsignalAny(sig, idx)
       THEN [signal |-> [num |-> [c \in DOMAIN sig |-> T * sig[c] - tot], den |-> T],
             SN |-> [c \in DOMAIN sig |-> [num |-> T * sig[c] - tot, den |-> T * nz[c]]],
             CMN |-> [num |-> tot, den |-> T],
             CMsig2 |-> [num |-> T * sq - tot * tot, den |-> T * T]]
       ELSE FailSoft(n)

\* the product of the non-zero noise entries
RECURSIVE NoiseProd(_, _)
NoiseProd(nz, c) ==
    IF c \notin DOMAIN nz THEN 1
    ELSE (IF nz[c] = 0 THEN 1 ELSE nz[c]) * NoiseProd(nz, c + 1)

\* a common denominator of the S/N values of a result and of
\* SN_cut * SN_ratio
SNScale(r, nz) == r.signal.den * SN_ratio_den * NoiseProd(nz, 0)

\* the S/N vector in units of 1 / SNScale.  clustering reads np.abs(SN) in
\* three comparisons only, against SN_cut and SN_cut * SN_ratio: inf is
\* above both, NaN is neither above nor below either
SNInt(r, nz, cut) ==
    LET S == SNScale(r, nz)
    IN [c \in DOMAIN r.SN |->
          IF r.SN[c].den # 0 THEN r.SN[c].num * (S \div r.SN[c].den)
          ELSE IF r.SN[c].num > 0 THEN cut * S + 1
          ELSE IF r.SN[c].num < 0 THEN -(cut * S + 1)
          ELSE (cut * S * SN_ratio_num) \div SN_ratio_den]

\* the corrected signal in units of 1 / den^2, with which
\* sqrt(|sum|) > SN_cluster is |sum| > (SN_cluster * den)^2
EvInt(r) == [c \in DOMAIN r.signal.num |-> r.signal.num[c] * r.signal.den]

\* self.clustering(signal, SN) on the result of process_event
clustering_of(r, nz, cut, clcut, mcs, msk, mat) ==
    Clustered(EvInt(r), SNInt(r, nz, cut), cut * SNScale(r, nz),
              clcut * r.signal.den, mcs, msk, mat)

\* gtime = np.nonzero(timing > self.tmin)
gtime(tm) == Ascending({e \in 1 .. Len(tm) : tm[e] > tmin})

\* events[event] for event in range(gtime[0].shape[0]): the k-th pass of
\* the loop reads the k-th event of the batch
LoopEvent(k, tm) == k

\* for channel in channels_hit: hitmap[int(channel)] += 1
AddHits(hm, chs) ==
    [c \in DOMAIN hm |-> hm[c] + Cardinality({k \in 1 .. Len(chs) : chs[k] = c})]

\* the record of degraded events: process_event returns the zeros without a
\* flag and do_analysis appends them like any result; no list, counter or
\* log entry names the event
DegradedEvents == {}

\* prodata[k][4]: every result holds the array object hitmap, not a copy,
\* so what result k shows is what hitmap holds now
StoredHitmap(k) == hitmap

InitEvt ==
    /\ pc = "evt_input"
    /\ \E n \in BatchSizes :
         /\ events \in [1 .. n -> EventRows]
         /\ timing \in [1 .. n -> TimingVals]
    /\ pedestal = [c \in Chan |-> 1]
    /\ noise \in NoiseProfiles
    /\ meanCMN \in MeanCMNVals
    /\ meanCMsig \in MeanCMsigVals
    /\ SN_cut \in EvtSN_cutVals
    /\ SN_cluster \in EvtSN_clusterVals
    /\ max_clustersize \in EvtMax_clustersizeVals
    /\ \E ms \in MaskSettings : masking = ms[1] /\ material = ms[2]
    /\ automasked_hit = 0
    /\ self_events = 0
    /\ prodata = <<>> /\ hitmap = <<>>
    /\ event = <<>> /\ SN = <<>> /\ channels = <<>> /\ clusters_list = <<>>
    /\ numclus = 0 /\ clustersize = <<>> /\ candidates = <<>>
    /\ signal = <<>> /\ time = <<>> /\ score_raw = <<>> /\ CMnoise = <<>>
    /\ err = "none"
    /\ NoiseIdle
    /\ FilesIdle
    /\ FitIdle

\* lines 157-162: the head of do_analysis
do_analysis_start ==
    /\ pc = "evt_input"
    /\ self_events' = self_events + Len(gtime(timing))
    /\ prodata' = <<>>
    /\ hitmap' = [c \in Chan |-> 0]
    /\ pc' = "evt_loop"
    /\ UNCHANGED <<events, timing, meanCMN, meanCMsig, clusVars, noiseVars, pedVars,
                   fileVars, fitVars>>

\* lines 168-185: one pass of the loop.  The appended list holds the array
\* object hitmap itself, so a result has no hitmap field of its own
do_analysis_event ==
    /\ pc = "evt_loop"
    /\ Len(prodata) < Len(gtime(timing))
    /\ \E r \in {process_event(events[LoopEvent(Len(prodata) + 1, timing)],
                               pedestal, meanCMN, meanCMsig, noise, NumChan)} :
       \E cl \in {clustering_of(r, noise, SN_cut, SN_cluster, max_clustersize,
                                masking, material)} :
         /\ automasked_hit' = automasked_hit + cl.automasked
         /\ hitmap' = AddHits(hitmap, cl.channels)
         /\ prodata' = Append(prodata,
                              [signal |-> r.signal, SN |-> r.SN, CMN |-> r.CMN,
                               CMsig2 |-> r.CMsig2, channels_hit |-> cl.channels,
                               clusters |-> cl.clusters_list,
                               numclus |-> cl.numclus,
                               clustersize |-> cl.clustersize])
    /\ UNCHANGED <<pc, events, timing, meanCMN, meanCMsig, self_events,
                   event, SN, SN_cut, SN_cluster, max_clustersize, masking,
                   material, channels, clusters_list, numclus, clustersize,
                   candidates, noiseVars, pedVars, fileVars, fitVars>>

\* line 218: return prodata
do_analysis_return ==
    /\ pc = "evt_loop"
    /\ Len(prodata) = Len(gtime(timing))
    /\ pc' = "evt_done"
    /\ UNCHANGED <<clusVars, noiseVars, pedVars, evtVars, fileVars, fitVars>>

NextEvt == do_analysis_start \/ do_analysis_event \/ do_analysis_return

SpecEvt == InitEvt /\ [][NextEvt]_vars

----------------------------------------------------------------------------
(* event_analysis.__init__: the loop over the input files *)

\* numbers of input files and of events per file
FileCounts == {1, 2}
FileSizes == {1, 2}

\* raw rows of the files: a quiet event and an event with a hit
FileRows == {RawRow(0, -1), RawRow(0, 3)}

\* the content of one file: events/signal and events/time
FileContents ==
    UNION {[events : [1 .. n -> FileRows], timing : [1 .. n -> TimingVals]] :
             n \in FileSizes}

\* the loop of do_analysis from pass k on; acc carries prodata, hitmap and
\* the automasked hits
RECURSIVE AnalysisLoop(_, _, _, _)
AnalysisLoop(acc, evs, tm, k) ==
    IF k > Len(gtime(tm)) THEN acc
    ELSE LET r == process_event(evs[LoopEvent(k, tm)], pedestal, meanCMN,
                                meanCMsig, noise, NumChan)
             cl == clustering_of(r, noise, SN_cut, SN_cluster, max_clustersize,
                                 masking, material)
         IN AnalysisLoop(
              [prodata |-> Append(acc.prodata,
                                  [signal |-> r.signal, SN |-> r.SN, CMN |-> r.CMN,
                                   CMsig2 |-> r.CMsig2, channels_hit |-> cl.channels,
                                   clusters |-> cl.clusters_list,
                                   numclus |-> cl.numclus,
                                   clustersize |-> cl.clustersize]),
               hitmap |-> AddHits(acc.hitmap, cl.channels),
               automasked |-> acc.automasked + cl.automasked],
              evs, tm, k + 1)

\* do_analysis(events, timing) as a function of its arguments
do_analysis(evs, tm) ==
    AnalysisLoop([prodata |-> <<>>, hitmap |-> [c \in Chan |-> 0], automasked |-> 0],
                 evs, tm, 1)

InitFiles ==
    /\ pc = "files_input"
    /\ data \in UNION {[1 .. m -> FileContents] : m \in FileCounts}
    /\ self_numevents = 0 /\ total_events = 0 /\ outputdata = <<>>
    /\ events = <<>> /\ timing = <<>> /\ prodata = <<>> /\ hitmap = <<>>
    /\ self_events = 0
    /\ meanCMN = 0 /\ meanCMsig = 0
    /\ pedestal = [c \in Chan |-> 1]
    /\ noise = [c \in Chan |-> 1]
    /\ SN_cut \in EvtSN_cutVals
    /\ SN_cluster \in EvtSN_clusterVals
    /\ max_clustersize \in EvtMax_clustersizeVals
    /\ masking = FALSE /\ material = 1
    /\ automasked_hit = 0
    /\ event = <<>> /\ SN = <<>> /\ channels = <<>> /\ clusters_list = <<>>
    /\ numclus = 0 /\ clustersize = <<>> /\ candidates = <<>>
    /\ signal = <<>> /\ time = <<>> /\ score_raw = <<>> /\ CMnoise = <<>>
    /\ err = "none"
    /\ NoiseIdle
    /\ FitIdle

\* lines 41-55: the counters are set from the first file
event_analysis_counts ==
    /\ pc = "files_input"
    /\ self_numevents' = Len(data[1].events)
    /\ total_events' = Len(data[1].events) * Len(data)
    /\ self_events' = 0
    /\ automasked_hit' = 0
    /\ pc' = "files_loop"
    /\ UNCHANGED <<data, outputdata, events, timing, meanCMN, meanCMsig,
                   prodata, hitmap, event, SN, SN_cut, SN_cluster,
                   max_clustersize, masking, material, channels,
                   clusters_list, numclus, clustersize, candidates,
                   noiseVars, pedVars, fitVars>>

\* lines 106-123: one file.  results[:, 0] on the array of an empty result
\* list raises IndexError
event_analysis_file ==
    /\ pc = "files_loop"
    /\ Len(outputdata) < Len(data)
    /\ \E f \in {data[Len(outputdata) + 1]} :
       \E res \in {do_analysis(f.events, f.timing)} :
         /\ events' = f.events
         /\ timing' = f.timing
         /\ self_events' = self_events + Len(gtime(f.timing))
         /\ prodata' = res.prodata
         /\ hitmap' = res.hitmap
         /\ automasked_hit' = automasked_hit + res.automasked
         /\ IF res.prodata = <<>>
            THEN /\ err' = "IndexError"
                 /\ pc' = "files_failed"
                 /\ outputdata' = outputdata
            ELSE /\ err' = err
                 /\ pc' = pc
                 /\ outputdata' = Append(outputdata, res.prodata)
    /\ UNCHANGED <<data, self_numevents, total_events, meanCMN, meanCMsig,
                   event, SN, SN_cut, SN_cluster, max_clustersize, masking,
                   material, channels, clusters_list, numclus, clustersize,
                   candidates, noiseVars, signal, time, pedestal, score_raw,
                   CMnoise, noise, fitVars>>

\* the end of the constructor
event_analysis_done ==
    /\ pc = "files_loop"
    /\ Len(outputdata) = Len(data)
    /\ pc' = "files_done"
    /\ UNCHANGED <<clusVars, noiseVars, pedVars, evtVars, fileVars, fitVars>>

NextFiles == event_analysis_counts \/ event_analysis_file \/ event_analysis_done

SpecFiles == InitFiles /\ [][NextFiles]_vars

----------------------------------------------------------------------------
(* langau.fit_langau: the refit loop *)

\* diff = 100
diff == 100
\* if iter > 50
MaxIter == 50

\* MPVs a fit can return (curve_fit bounds them to 1 .. 60000)
MpvVals == {50, 200, 400}

\* variant: the loop gives up one attempt later
GivesUp_late(it) == it > MaxIter + 1

\* if iter > 50: converged = True
GivesUp(it) == it > MaxIter

InitFit ==
    /\ pc = "fit_loop"
    /\ iter = 0 /\ oldmpv = 0 /\ coeff = <<>> /\ warned = FALSE
    /\ ClusIdle /\ NoiseIdle /\ PedIdle /\ EvtIdle /\ FilesIdle

\* lines 715-727: one pass of `while not converged`; m is the MPV of the fit
fit_attempt ==
    /\ pc = "fit_loop"
    /\ \E m \in MpvVals :
         /\ iter' = iter + 1
         /\ coeff' = <<m>>
         /\ oldmpv' = IF abs(m - oldmpv) > diff THEN m ELSE oldmpv
         /\ warned' = (warned \/ GivesUp(iter + 1))
         /\ pc' = IF abs(m - oldmpv) > diff /\ ~GivesUp(iter + 1)
                  THEN "fit_loop" ELSE "fit_converged"
    /\ UNCHANGED <<clusVars, noiseVars, pedVars, evtVars, fileVars>>

\* line 731: return coeff, pcov, hist, binerror
fit_return ==
    /\ pc = "fit_converged"
    /\ pc' = "fit_done"
    /\ UNCHANGED <<clusVars, noiseVars, pedVars, evtVars, fileVars, fitVars>>

NextFit == fit_attempt \/ fit_return

SpecFit == InitFit /\ [][NextFit]_vars

\* the interpreter runs the loop on: a pass that can be taken is taken
SpecFitLive == SpecFit /\ WF_vars(NextFit)

----------------------------------------------------------------------------
(* Vocabulary of the properties of clustering, in terms of the arguments    *)
(* and the returned values only                                            *)

Returned == pc = "done" /\ event # <<>>

IsSeed(c) == abs(SN[c]) > SN_cut
OverNeighbourCut(c) == abs(SN[c]) * SN_ratio_den > SN_cut * SN_ratio_num
UnderNeighbourCut(c) == abs(SN[c]) * SN_ratio_den < SN_cut * SN_ratio_num

\* the signal of c has the sign the automasking rejects
WrongSign(c) == IF material = 1 THEN event[c] > 0 ELSE event[c] < 0
\* the signal of c has the sign the automasking keeps
PhysicalSign(c) == IF material = 1 THEN event[c] < 0 ELSE event[c] > 0

SignalOf(S) == SumTake(event, Ascending(S))
\* sqrt(|x|) > SN_cluster
OverClusterCut(x) == SN_cluster < 0 \/ abs(x) > SN_cluster * SN_cluster
\* sqrt(|x|) = SN_cluster
AtClusterCut(x) == SN_cluster >= 0 /\ abs(x) = SN_cluster * SN_cluster

Contiguous(S) == \A a \in S : \A b \in S : \A m \in a .. b : m \in S

CandidatePasses(cand) == OverClusterCut(SignalOf(Range(cand.cluster)))

----------------------------------------------------------------------------
(* C1: every accepted cluster is a set of consecutive channels: with a < b  *)
(* in the cluster, every channel between a and b is in the cluster.        *)
C1_ClustersContiguous ==
    Returned => \A k \in 1 .. Len(clusters_list) :
                    Contiguous(Range(clusters_list[k]))

(* C2: two adjacent channels c, c+1 anywhere in the detector, both over the *)
(* neighbour threshold and at least one a seed, every other channel under  *)
(* the neighbour threshold, max_clustersize >= 3: one single cluster of    *)
(* size 2 holds them.  Stated for automasking off and a pair that passes   *)
(* the cluster cut, the reading most favourable to the code.               *)
C2_Pair(c) ==
    /\ OverNeighbourCut(c) /\ OverNeighbourCut(c + 1)
    /\ IsSeed(c) \/ IsSeed(c + 1)
    /\ \A d \in Chan \ {c, c + 1} : UnderNeighbourCut(d)
    /\ max_clustersize >= 3
    /\ ~masking
    /\ OverClusterCut(SignalOf({c, c + 1}))

C2_AdjacentPairOneCluster ==
    Returned => \A c \in 0 .. (NumChan - 2) :
                    C2_Pair(c) => /\ Len(clusters_list) = 1
                                  /\ Range(clusters_list[1]) = {c, c + 1}
                                  /\ clustersize = <<2>>
                                  /\ numclus = 1

(* C3: seeds s and s+2, channel s+1 over the neighbour threshold, all other *)
(* channels under it, max_clustersize = 5, for every s with s+2 < numchan: *)
(* exactly one cluster, {s, s+1, s+2}, of recorded size 3.  Stated for     *)
(* automasking off and a triple that passes the cluster cut.               *)
C3_Triple(s) ==
    /\ IsSeed(s) /\ IsSeed(s + 2) /\ OverNeighbourCut(s + 1)
    /\ \A d \in Chan \ {s, s + 1, s + 2} : UnderNeighbourCut(d)
    /\ max_clustersize = 5
    /\ ~masking
    /\ OverClusterCut(SignalOf({s, s + 1, s + 2}))

C3_SeedNeighbourSeedOneCluster ==
    Returned => \A s \in 0 .. (NumChan - 3) :
                    C3_Triple(s) => /\ Len(clusters_list) = 1
                                    /\ Range(clusters_list[1]) = {s, s + 1, s + 2}
                                    /\ clustersize = <<3>>
                                    /\ numclus = 1

(* C4: a candidate cluster is returned, counted and has its size recorded   *)
(* exactly when sqrt(|sum of its signals|) > SN_cluster; a candidate at    *)
(* the cut is rejected; numclus is the number of returned clusters and of  *)
(* returned sizes.                                                         *)
C4_AcceptanceStrict ==
    Returned =>
        LET acc == SelectSeq(candidates, CandidatePasses)
        IN /\ clusters_list = [k \in 1 .. Len(acc) |-> acc[k].cluster]
           /\ clustersize = [k \in 1 .. Len(acc) |-> acc[k].size]
           /\ numclus = Len(clusters_list)
           /\ numclus = Len(clustersize)

\* a candidate exactly at the cut (rejected) next to an accepted one
C4_Witness ==
    /\ Returned
    /\ SN_cluster = 1
    /\ \E k \in 1 .. Len(candidates) :
           AtClusterCut(SignalOf(Range(candidates[k].cluster)))
    /\ numclus = 1
    /\ Len(candidates) = 2

(* C5: a channel is claimed by at most one candidate cluster of an event:   *)
(* candidates, accepted or rejected, are pairwise disjoint and list no     *)
(* channel twice, every returned cluster is one of the candidates, and a   *)
(* channel already claimed does not seed a cluster of its own.             *)
C5_ChannelsClaimedOnce ==
    Returned =>
        /\ \A j \in 1 .. Len(candidates) : \A k \in 1 .. Len(candidates) :
               j # k => Range(candidates[j].cluster)
                          \cap Range(candidates[k].cluster) = {}
        /\ \A k \in 1 .. Len(candidates) :
               Cardinality(Range(candidates[k].cluster))
                   = Len(candidates[k].cluster)
        /\ \A k \in 1 .. Len(clusters_list) :
               \E j \in 1 .. Len(candidates) :
                   candidates[j].cluster = clusters_list[k]
        /\ \A j \in 1 .. Len(candidates) : \A k \in 1 .. Len(candidates) :
               j # k => candidates[j].cluster[1] \notin Range(candidates[k].cluster)

\* a rejected candidate holds a channel that a later seed, itself accepted,
\* would otherwise take as its neighbour
C5_Witness ==
    /\ Returned
    /\ Len(candidates) = 2 /\ numclus = 1
    /\ ~CandidatePasses(candidates[1])
    /\ \E c \in Range(candidates[1].cluster) :
           /\ c = candidates[2].cluster[1] - 1
           /\ OverNeighbourCut(c)
           /\ c > 0 /\ candidates[2].cluster[1] + 1 < NumChan
           /\ (masking => PhysicalSign(c))
    /\ max_clustersize = 5

(* C6: with automasking on, for either polarity, every seed whose signal   *)
(* has the rejected sign is missing from the returned seed list, counts 1  *)
(* in automasked_hit and is in no candidate cluster, as seed or neighbour; *)
(* with automasking off no seed is removed and automasked_hit is unchanged *)
(* (it starts at 0).                                                       *)
MaskedSeeds == {c \in Chan : IsSeed(c) /\ WrongSign(c)}

C6_AutomaskedSeeds ==
    Returned =>
        IF masking
        THEN /\ \A c \in MaskedSeeds :
                    /\ c \notin Range(channels)
                    /\ \A k \in 1 .. Len(candidates) :
                           c \notin Range(candidates[k].cluster)
             /\ automasked_hit = Cardinality(MaskedSeeds)
        ELSE /\ \A c \in Chan : IsSeed(c) => c \in Range(channels)
             /\ automasked_hit = 0

\* polarity 0: a masked seed sits right beside a seed that was clustered and
\* that examined it as a neighbour
C6_Witness ==
    /\ Returned /\ masking /\ material = 0
    /\ max_clustersize = 5
    /\ \E c \in MaskedSeeds : \E k \in 1 .. Len(candidates) :
           /\ candidates[k].cluster[1] = c + 1
           /\ c > 0 /\ c + 2 < NumChan
           /\ Len(candidates[k].cluster) > 1
    /\ automasked_hit = 1

C8_SeedList ==
    Returned =>
        /\ Range(channels) = {c \in Chan : IsSeed(c) /\ ~(masking /\ WrongSign(c))}
        /\ \A j \in 1 .. Len(channels) : \A k \in 1 .. Len(channels) :
               j < k => channels[j] < channels[k]
        /\ \A k \in 1 .. Len(candidates) :
               candidates[k].cluster[1] \in Range(channels)
        /\ (\A c \in Chan : abs(SN[c]) <= SN_cut) =>
               (channels = <<>> /\ clusters_list = <<>> /\ numclus = 0
                /\ clustersize = <<>>)

\* two seeds are returned in ascending order and a third was automasked
C8_Witness ==
    /\ Returned /\ masking
    /\ Len(channels) = 2
    /\ MaskedSeeds # {}
    /\ \E c \in MaskedSeeds : c < channels[1]

(* C9: a single isolated spike p (|SN[p]| > SN_cut, every other channel     *)
(* under the neighbour threshold), max_clustersize = 5: exactly one        *)
(* cluster, <<p>> of size 1, when sqrt(|event[p]|) > SN_cluster, and no    *)
(* cluster otherwise.                                                      *)
C9_Spike(p) ==
    /\ IsSeed(p)
    /\ \A d \in Chan \ {p} : UnderNeighbourCut(d) /\ ~IsSeed(d)
    /\ max_clustersize = 5

OneClusterOf(p) ==
    /\ clusters_list = << <<p>> >> /\ clustersize = <<1>> /\ numclus = 1

NoCluster ==
    /\ clusters_list = <<>> /\ clustersize = <<>> /\ numclus = 0

\* the claim as stated, for every parameter setting
C9_SpikeAsStated ==
    Returned => \A p \in Chan :
        C9_Spike(p) => IF OverClusterCut(event[p]) THEN OneClusterOf(p)
                       ELSE NoCluster

\* C9 as amended: the spike gives its one cluster when it passes the cluster
\* cut and is not automasked (automasking off, or a signal that has not the
\* rejected sign); no cluster otherwise.
C9_SpikeUnlessMasked ==
    Returned => \A p \in Chan :
        C9_Spike(p) => IF OverClusterCut(event[p]) /\ ~(masking /\ WrongSign(p))
                       THEN OneClusterOf(p)
                       ELSE NoCluster

\* an accepted spike on the first channel of the detector
C9_Witness ==
    /\ Returned /\ C9_Spike(0) /\ OneClusterOf(0) /\ event[0] < 0

----------------------------------------------------------------------------
(* Properties of detect_noisy_strips *)

NoiseReturned == pc = "done" /\ Noise # <<>>

(* C10: for every noise vector, cut and manual mask, the returned noisy and *)
(* good index arrays are disjoint, together cover every channel, and their *)
(* lengths add up to the number of channels.                               *)
C10_NoisyGoodPartition ==
    NoiseReturned =>
        /\ Range(noisy_strips) \cap Range(good_strips) = {}
        /\ Range(noisy_strips) \cup Range(good_strips) = NChan
        /\ Len(noisy_strips) + Len(good_strips) = NoiseChan

(* C11: channel i is returned as noisy exactly when Noise[i] is strictly    *)
(* over median(Noise) + Noise_cut or i is in the manual mask; a channel    *)
(* exactly at median + cut and not masked is good; a masked channel is     *)
(* never good, whatever its noise.                                         *)
OverNoiseCut(i) == 2 * Noise[i] > Median2(Noise) + 2 * Noise_cut
AtNoiseCut(i) == 2 * Noise[i] = Median2(Noise) + 2 * Noise_cut

C11_NoisyIffOverCutOrMasked ==
    NoiseReturned =>
        \A i \in NChan :
            /\ i \in Range(noisy_strips) <=> (OverNoiseCut(i) \/ i \in Range(mask))
            /\ i \in Range(good_strips) <=> ~(OverNoiseCut(i) \/ i \in Range(mask))

\* one channel sits exactly at median + cut and is good, another is masked
\* although its noise is under the median, a third is over the cut
C11_Witness ==
    /\ NoiseReturned
    /\ \E i \in NChan : AtNoiseCut(i) /\ i \in Range(good_strips)
    /\ \E i \in Range(mask) : 2 * Noise[i] < Median2(Noise)
    /\ \E i \in NChan : OverNoiseCut(i) /\ i \notin Range(mask)


----------------------------------------------------------------------------
(* NoiseAnalysis.__init__                                                  *)

\* the constructor has run both passes and built total_noise
PedReturned == pc = "ped_done" /\ err = "none"

\* the mean over the channels of events[e] - pedestal, as the numerator
\* over the denominator pedestal.den * n
CommonModeNum(e) ==
    SeqSum([k \in 1 .. NoiseChan |-> pedestal.den * signal[e][k - 1] - pedestal.num[k - 1]])

\* C12: after both passes the exposed noise vector is the standard deviation
\* of the pass-2 residuals and has one entry per good strip.
C12_NoiseFromPass2 ==
    PedReturned =>
        /\ Cardinality(DOMAIN noise.num) = Len(good_strips)
        /\ \E std2 \in {StdAxis0(score_raw, Len(good_strips),
                                 pedestal.den * Len(good_strips))} :
             \A k \in DOMAIN noise.num \cap DOMAIN std2.num :
                 noise.num[k] * std2.den = std2.num[k] * noise.den

\* C13: after the first noise_calc every event e of the batch has
\* CMnoise[e] = mean over the channels of events[e] - pedestal and the
\* residual row events[e] - pedestal - CMnoise[e], whatever its timestamp.
C13_EveryEventFilled ==
    pc = "pass1" =>
        \A e \in 1 .. Len(signal) :
            /\ CMnoise[e].num * pedestal.den * NoiseChan
                   = CMnoise[e].den * CommonModeNum(e)
            /\ \A c \in NChan :
                   score_raw[e].num[c] * pedestal.den * NoiseChan
                       = score_raw[e].den
                           * (NoiseChan * (pedestal.den * signal[e][c] - pedestal.num[c])
                                - CommonModeNum(e))

\* C17: an empty event sequence fails with InsufficientDataError and leaves
\* no pedestal and no noise; otherwise the pedestal of a channel is the mean
\* of the channel over all events of the batch.
C17_EmptyBatchFails ==
    pc # "ped_input" =>
        IF Len(signal) = 0
        THEN err = "InsufficientDataError" /\ pedestal = <<>> /\ noise = <<>>
        ELSE /\ pedestal.den = Len(signal)
             /\ \A c \in NChan :
                    pedestal.num[c] = SeqSum([e \in 1 .. Len(signal) |-> signal[e][c]])

----------------------------------------------------------------------------
(* event_analysis.do_analysis and process_event                            *)

\* the event that the k-th pass of the loop hands to process_event
InputOf(k) == events[LoopEvent(k, timing)]

\* raw - pedestal of a raw row
RawSignal(row) == [c \in Chan |-> row[c] - pedestal[c]]

\* the channels of a raw row with signal < 5*mean_cmsig + mean_cmn
TrimSet(row) == {c \in Chan : RawSignal(row)[c] < 5 * meanCMsig + meanCMN}

TrimSum(row) == SumTake(RawSignal(row), Ascending(TrimSet(row)))

IsZero(q) == q.num = 0 /\ q.den # 0

\* the noise profile has no zero entry
NoiseUsable == \A c \in Chan : noise[c] # 0

\* C14: with a usable noise profile, an event with a non-empty trimmed
\* subset gets cmn = mean of the trimmed channels, corrected signal =
\* signal - cmn and SN = corrected signal / noise.
C14_NormalPathWhenTrimNonEmpty ==
    \A k \in 1 .. Len(prodata) :
        (NoiseUsable /\ TrimSet(InputOf(k)) # {}) =>
            LET T == Cardinality(TrimSet(InputOf(k)))
                tot == TrimSum(InputOf(k))
                sig == RawSignal(InputOf(k))
                r == prodata[k]
            IN /\ r.CMN.den # 0 /\ r.CMN.num * T = tot * r.CMN.den
               /\ \A c \in Chan :
                    /\ r.signal.num[c] * T = (T * sig[c] - tot) * r.signal.den
                    /\ noise[c] # 0 =>
                         /\ r.SN[c].den # 0
                         /\ r.SN[c].num * T * noise[c] = (T * sig[c] - tot) * r.SN[c].den

\* C15: an event with an empty trimmed subset gets an all-zero signal and
\* S/N of numchan entries with CMN = CMsig = 0 and no cluster; it has a
\* result and is counted in self.events.
C15_FailSoftOnEmptyTrim ==
    /\ \A k \in 1 .. Len(prodata) :
           TrimSet(InputOf(k)) = {} =>
               /\ DOMAIN prodata[k].signal.num = Chan
               /\ DOMAIN prodata[k].SN = Chan
               /\ prodata[k].signal.den # 0
               /\ \A c \in Chan :
                      prodata[k].signal.num[c] = 0 /\ IsZero(prodata[k].SN[c])
               /\ IsZero(prodata[k].CMN) /\ IsZero(prodata[k].CMsig2)
               /\ prodata[k].numclus = 0 /\ prodata[k].clusters = <<>>
    /\ pc = "evt_done" =>
           /\ err = "none"
           /\ Len(prodata) = self_events
           /\ \A k \in 1 .. Len(gtime(timing)) : k \in DOMAIN prodata

C15_Witness ==
    /\ pc = "evt_done"
    /\ Len(prodata) = 2
    /\ \E k \in 1 .. Len(prodata) :
         /\ TrimSet(InputOf(k)) = {}
         /\ \E c \in Chan : RawSignal(InputOf(k))[c] > 0
         /\ \E c \in Chan : noise[c] = 0

\* C16: with a zero entry in the noise profile process_event ends with a
\* DegenerateChannelError, and no result carries an S/N entry that is NaN
\* or infinite.
C16_NoDivisionByZeroNoise ==
    \A k \in 1 .. Len(prodata) :
        /\ \A c \in Chan : prodata[k].SN[c].den # 0
        /\ (\E c \in Chan : noise[c] = 0) => err = "DegenerateChannelError"

\* C18: with a usable noise profile, the k-th result is the one of the k-th
\* event with timing > t_min, and at the return there is one result per
\* such event.
C18_ResultsOfGoodEvents ==
    /\ \A k \in 1 .. Len(prodata) :
         NoiseUsable =>
         \E r \in {process_event(events[gtime(timing)[k]], pedestal, meanCMN,
                                 meanCMsig, noise, NumChan)} :
            /\ prodata[k].signal = r.signal
            /\ prodata[k].SN = r.SN
            /\ prodata[k].CMN = r.CMN
    /\ pc = "evt_done" => Len(prodata) = Len(gtime(timing))

\* the seed channels of the clusters accepted in the k-th result
AcceptedSeeds(k) ==
    {prodata[k].clusters[j][1] : j \in 1 .. Len(prodata[k].clusters)}

\* C19: with a usable noise profile, hitmap[c] counts at most one hit per
\* event, and only for events in which c is the seed of an accepted cluster.
C19_HitsAreAcceptedSeeds ==
    (NoiseUsable /\ pc \in {"evt_loop", "evt_done"}) =>
        \A c \in Chan :
            hitmap[c] <= Cardinality({k \in 1 .. Len(prodata) : c \in AcceptedSeeds(k)})

\* the hits counted by the first n processed events
HitsThrough(n) ==
    [c \in Chan |->
        Cardinality({k \in 1 .. n : c \in Range(prodata[k].channels_hit)})]

\* C20: with a usable noise profile, the hitmap stored in the N-th result
\* holds the hits of the processed events 1..N, whatever was processed
\* after it.
C20_SnapshotPerEvent ==
    NoiseUsable =>
        \A n \in 1 .. Len(prodata) : StoredHitmap(n) = HitsThrough(n)

\* what do_analysis produces for one raw row under the settings of the run
EventResult(row) ==
    LET r == process_event(row, pedestal, meanCMN, meanCMsig, noise, NumChan)
        cl == clustering_of(r, noise, SN_cut, SN_cluster, max_clustersize,
                            masking, material)
    IN [signal |-> r.signal, SN |-> r.SN, CMN |-> r.CMN, CMsig2 |-> r.CMsig2,
        channels_hit |-> cl.channels, clusters |-> cl.clusters_list,
        numclus |-> cl.numclus, clustersize |-> cl.clustersize]

FailSoftPasses == {k \in 1 .. Len(prodata) : TrimSet(InputOf(k)) = {}}

\* C22: every event that took the fail-soft path is in the record of
\* degraded events with its index, and the loop goes on to the end of the
\* batch.
C22_DegradedRecorded ==
    /\ FailSoftPasses \subseteq DegradedEvents
    /\ pc = "evt_done" => Len(prodata) = Len(gtime(timing))

----------------------------------------------------------------------------
(* growth of a cluster *)

\* the automasking lets channel c join a cluster
ValidNeighbour(c) == ~masking \/ PhysicalSign(c)

\* the first seed of the scan and the cluster built from it; no channel is
\* used when its growth starts
FirstSeed == channels[1]
FirstCluster == Range(candidates[1].cluster)

\* C23: the two sides of a seed are bounds-checked separately: the right
\* neighbour of the first seed joins its cluster when it is below numchan
\* and qualifies, the left neighbour when it is above 0 and qualifies,
\* wherever the other side falls.
C23_SidesBoundedSeparately ==
    (Returned /\ channels # <<>> /\ max_clustersize >= 2) =>
        /\ (FirstSeed + 1 < NumChan /\ OverNeighbourCut(FirstSeed + 1)
              /\ ValidNeighbour(FirstSeed + 1))
            => FirstSeed + 1 \in FirstCluster
        /\ (0 < FirstSeed - 1 /\ OverNeighbourCut(FirstSeed - 1)
              /\ ValidNeighbour(FirstSeed - 1))
            => FirstSeed - 1 \in FirstCluster

\* the scan of the first seed reaches distance i on both sides
ScanReaches(i) ==
    /\ i <= max_clustersize \div 2
    /\ 0 < FirstSeed - i /\ FirstSeed + i < NumChan

\* channel c can join the cluster of the first seed (no channel but the
\* members of this cluster is used while it grows)
Qualifies(c) == OverNeighbourCut(c) /\ ValidNeighbour(c)

\* C24: in the cluster of the first seed ch, (a) no member lies beyond a
\* channel under the neighbour threshold on its side; (b) a channel under
\* the threshold at ch+1 does not keep a qualifying ch-1 out, nor one at
\* ch-1 a qualifying ch+1; (c) a channel exactly at the threshold is not a
\* member and a qualifying channel right behind it still joins.
C24_StopsPerDirection ==
    (Returned /\ channels # <<>>) =>
        /\ \A m \in FirstCluster : \A c \in Chan :
             UnderNeighbourCut(c) =>
                 ~(FirstSeed < c /\ c < m) /\ ~(m < c /\ c < FirstSeed)
        /\ (ScanReaches(1) /\ UnderNeighbourCut(FirstSeed + 1)
              /\ Qualifies(FirstSeed - 1)) => FirstSeed - 1 \in FirstCluster
        /\ (ScanReaches(1) /\ UnderNeighbourCut(FirstSeed - 1)
              /\ Qualifies(FirstSeed + 1)) => FirstSeed + 1 \in FirstCluster
        /\ \A c \in Chan \ {FirstSeed} :
             (~OverNeighbourCut(c) /\ ~UnderNeighbourCut(c)) => c \notin FirstCluster
        /\ (ScanReaches(2) /\ ~OverNeighbourCut(FirstSeed + 1)
              /\ ~UnderNeighbourCut(FirstSeed + 1) /\ Qualifies(FirstSeed + 2))
            => FirstSeed + 2 \in FirstCluster
        /\ (ScanReaches(2) /\ ~OverNeighbourCut(FirstSeed - 1)
              /\ ~UnderNeighbourCut(FirstSeed - 1) /\ Qualifies(FirstSeed - 2))
            => FirstSeed - 2 \in FirstCluster

C24_Witness ==
    /\ Returned /\ channels # <<>>
    /\ ScanReaches(2)
    /\ UnderNeighbourCut(FirstSeed + 1) /\ Qualifies(FirstSeed + 2)
    /\ FirstSeed + 2 \notin FirstCluster
    /\ Qualifies(FirstSeed - 1) /\ FirstSeed - 1 \in FirstCluster

\* C25: a returned cluster has at most max_clustersize members, its recorded
\* size is the number of its distinct members, and every member is within
\* floor(max_clustersize / 2) channels of the seed.
C25_ClusterSizeBounded ==
    Returned =>
        \A k \in 1 .. Len(clusters_list) :
            /\ Cardinality(Range(clusters_list[k])) <= max_clustersize
            /\ clustersize[k] = Cardinality(Range(clusters_list[k]))
            /\ \A m \in Range(clusters_list[k]) :
                   abs(m - clusters_list[k][1]) <= max_clustersize \div 2

----------------------------------------------------------------------------
(* event_analysis.__init__ *)

\* the events of all files and those of them with timing > t_min
AllEvents == SeqSum([f \in 1 .. Len(data) |-> Len(data[f].events)])
AllGoodEvents == SeqSum([f \in 1 .. Len(data) |-> Len(gtime(data[f].timing))])

\* C26: after the files are processed total_events is the sum of the event
\* counts of the files, self.events is the number of events with timing >
\* t_min over all files, and processed <= total.
C26_EventCounts ==
    pc = "files_done" =>
        /\ total_events = AllEvents
        /\ self_events = AllGoodEvents
        /\ self_events <= total_events

----------------------------------------------------------------------------
(* langau.fit_langau *)

\* C27: the refit loop ends; it makes at most 51 attempts, goes on only
\* after an attempt whose MPV differs from the last adopted MPV by more than
\* 100, ends after the 51st attempt with the warning, and returns the
\* coefficients of the last fit.
C27_FitLoopTerminates ==
    /\ <>(pc = "fit_done")
    /\ [](iter <= 51)
    /\ [](pc = "fit_done" => (coeff # <<>> /\ (iter = 51 => warned)))
    /\ [][/\ (pc = "fit_loop" /\ pc' = "fit_loop") => abs(coeff'[1] - oldmpv) > 100
          /\ (pc = "fit_loop" /\ abs(coeff'[1] - oldmpv) <= 100) => pc' # "fit_loop"
          /\ (pc = "fit_loop" /\ iter = 50) => pc' # "fit_loop"
          /\ pc = "fit_converged" => coeff' = coeff]_vars

C27_Witness ==
    /\ pc = "fit_done"
    /\ iter = 51
    /\ warned
    /\ coeff[1] = oldmpv

====
